---- MODULE Spec2Model ----
(***************************************************************************)
(* Model of app/main.py: the FastAPI facade of the Gemini File Search      *)
(* backend.  Three parts of the module are modelled:                       *)
(*   - the session router (_get_or_create_manager) and the endpoints that  *)
(*     go through it, handled by the worker threads of the thread pool;    *)
(*   - the OpenAI compatible endpoint (openai_chat_completions) with the   *)
(*     prompt resolver (_get_system_prompt);                               *)
(*   - the prompt and API key management endpoints.                        *)
(* FileSearchManager, PromptManager and APIKeyManager live in modules that *)
(* main.py imports (core, prompts, api_keys); they are modelled from the   *)
(* design document.                                                        *)
(***************************************************************************)
EXTENDS Integers, Sequences, FiniteSets, TLC

None == "None"

\* An optional value that is not a string: Nothing, or Some(v).
Nothing == <<>>
Some(v) == <<v>>

----------------------------------------------------------------------------
(* Bounds of the model *)

NumWorkers == 2
MaxRequests == 2
MaxKeys == 1
MaxPromptIds == 2
MaxClock == 1

Workers == 1..NumWorkers

----------------------------------------------------------------------------
(* Values *)

\* The per-request credential header X-Gemini-Api-Key: absent, empty, or a secret.
UserSecrets == {"gk-a", "gk-b"}
HeaderValues == {None, ""} \cup UserSecrets

\* hashlib.sha256(user_api_key.encode()).hexdigest(): a fixed digest per
\* input, distinct inputs having distinct digests.
DigestTable ==
    [s \in UserSecrets |-> CASE s = "gk-a" -> "9f2c"
                             [] s = "gk-b" -> "41d7"]

sha256_hexdigest(s) == DigestTable[s]

\* The endpoints that obtain their manager from _get_or_create_manager and
\* then call the provider through it.
SessionEndpoints ==
    {"list_stores", "create_store", "list_files", "delete_file", "upload_file",
     "query", "start_chat", "send_message", "get_history", "delete_store"}

\* What a call of a FileSearchManager method can do: return, or raise.
\* A ClientError carries a message, modelled as the sequence of its words.
ClientErrorMessages ==
    { <<"429", "RESOURCE_EXHAUSTED">>, <<"400", "INVALID_ARGUMENT">> }

Words(msg) == { msg[i] : i \in 1..Len(msg) }

ProviderOutcomes ==
    { [kind |-> "ok", msg |-> <<>>],
      [kind |-> "ValueError", msg |-> <<>>],
      [kind |-> "Exception", msg |-> <<>>] }
    \cup { [kind |-> "ClientError", msg |-> m] : m \in ClientErrorMessages }

NoOutcome == [kind |-> None, msg |-> <<>>]

IsRateLimit(o) ==
    o.kind = "ClientError" /\ ({"RESOURCE_EXHAUSTED", "429"} \cap Words(o.msg) # {})

\* The knowledge stores (provider-side names).
Stores == {"S1", "S2"}

\* Instruction texts.
Contents == {"A", "B"}

\* The raw secret create_key generates for the n-th key, as the sequence of
\* its parts; a fresh one per key.
RawKey(n) == <<"sk-", n, "r", n>>

\* The identifiers given to the keys and to the prompts, in order of issue.
KeyId(n) == "k" \o ToString(n)
PromptId(n) == "p" \o ToString(n)

\* The values a credential's prompt_index is given (an optional integer).
PromptIndexes == {Some(-1), Some(0), Some(1)}

\* The Authorization header of a request: empty when absent, else the pair
\* of what stands before the first space and what stands after it (the
\* scheme is matched with its case).
BearerTokens == {<<>>, <<"sk-", 1>>} \cup {RawKey(n) : n \in 1..MaxKeys}
AuthValues ==
    {<<>>, <<"Basic", RawKey(1)>>, <<"bearer", RawKey(1)>>}
    \cup {<<"Bearer", tok>> : tok \in BearerTokens}

\* The models a request names, and the values the environment variable
\* GEMINI_MODEL_NAME gives DEFAULT_MODEL.
SUPPORTED_MODELS ==
    <<"gemini-2.5-flash-lite", "gemini-3-flash-preview", "gemini-3-pro-preview">>
RequestedModels ==
    {"gemini-2.5-flash-lite", "gemini-3-pro-preview", "gpt-4o", "gemini-1.5-pro"}
FlashLite == "gemini-2.5-flash-lite"
DefaultModels == {FlashLite, "gemini-1.5-pro"}

\* The messages of a chat request.
Msg(role, content) == [role |-> role, content |-> content]
\* What manager.query can do: return a response with a text, or raise.
QueryOutcomes ==
    { [kind |-> "ok", msg |-> <<"answer">>],
      [kind |-> "ClientError", msg |-> <<"429", "RESOURCE_EXHAUSTED">>],
      [kind |-> "Exception", msg |-> <<>>] }

----------------------------------------------------------------------------
VARIABLES
    manager,          \* the global FileSearchManager: TRUE once startup built it
    prompt_manager,   \* the global PromptManager: TRUE once startup built it
    api_key_manager,  \* the global APIKeyManager: TRUE once startup built it
    user_managers,    \* session id -> context (a FileSearchManager object)
    nextCtx,          \* the identity the next constructed context gets
    pc,               \* each worker's position in its handler
    req,              \* each worker's request: its X-Gemini-Api-Key header
    session_id,       \* each worker's local session_id
    mgr,              \* each worker's local mgr
    answer,           \* the response sent last by a session endpoint
    built,            \* history: contexts constructed, per session id
    received,         \* history: <<secret, context>> handed out
    refused,          \* history: secrets whose context could not be constructed
    recovered,        \* history: refused secrets that got a context later
    nreq,             \* requests accepted so far
    DEFAULT_MODEL,    \* os.getenv("GEMINI_MODEL_NAME", "gemini-2.5-flash-lite")
    api_keys,         \* APIKeyManager: the credential records, oldest first
    nextKey,          \* APIKeyManager: the number of the next key
    prompts,          \* PromptManager: the prompt records, oldest first
    active,           \* PromptManager: store -> id of its active prompt
    nextPrompt,       \* PromptManager: the id of the next prompt
    removed,          \* history: <<store, id>> of the prompts deleted
    now,              \* the clock the timestamps are read from
    shown,            \* history: how many responses carried each secret / hash
    promptresp,       \* the status of the prompt management response
    routed,           \* the prompt request the route table dispatched last
    keyresp,          \* the API key management response
    chat,             \* the chat completion request and its response
    provider          \* the provider query that chat request issued, if any

routerVars == <<user_managers, nextCtx, pc, req, session_id, mgr, answer,
                built, received, refused, recovered, nreq>>
startupVars == <<manager, prompt_manager, api_key_manager>>
\* promptresp, keyresp and chat/provider describe the request the facade
\* handled last: the one that belongs to its endpoint is set, the others
\* are empty.
keyVars == <<api_keys, nextKey, now, shown>>
promptVars == <<prompts, active, nextPrompt, removed>>
respVars == <<promptresp, routed, keyresp, chat, provider>>
envVars == <<startupVars, DEFAULT_MODEL>>
facadeVars == <<keyVars, promptVars, respVars>>
vars == <<envVars, routerVars, facadeVars>>

\* The context startup() builds; the contexts of the cache are 1, 2, ...
DefaultCtx == 0

\* A response of a session endpoint: where it was raised or returned
\* ("default": _get_or_create_manager without the default manager,
\* "construct": _get_or_create_manager failing to construct a context,
\* "endpoint": after the provider call), the endpoint, what the provider
\* call did, and the HTTP status.
Answer(from, ep, o, st) ==
    [from |-> from, endpoint |-> ep, outcome |-> o, status |-> st]

NoAnswer == Answer(None, None, NoOutcome, 0)

----------------------------------------------------------------------------
(* startup(): the three managers are built in order inside one try block;  *)
(* a ValueError leaves the ones not yet built at None.                     *)

StartupOutcomes ==
    { <<TRUE, TRUE, TRUE>>, <<TRUE, TRUE, FALSE>>,
      <<TRUE, FALSE, FALSE>>, <<FALSE, FALSE, FALSE>> }

startup ==
    \E o \in StartupOutcomes :
        /\ manager = o[1]
        /\ prompt_manager = o[2]
        /\ api_key_manager = o[3]

InitRouter ==
    /\ user_managers = << >>
    /\ nextCtx = 1
    /\ pc = [t \in Workers |-> "idle"]
    /\ req = [t \in Workers |-> None]
    /\ session_id = [t \in Workers |-> None]
    /\ mgr = [t \in Workers |-> None]
    /\ answer = NoAnswer
    /\ built = [h \in {sha256_hexdigest(s) : s \in UserSecrets} |-> 0]
    /\ received = {}
    /\ refused = {}
    /\ recovered = {}
    /\ nreq = 0

----------------------------------------------------------------------------
(* gemini_client_error_handler: the status of a ClientError that leaves a  *)
(* handler.                                                                *)

gemini_client_error_handler(msg) ==
    IF "RESOURCE_EXHAUSTED" \in Words(msg) \/ "429" \in Words(msg)
    THEN 429
    ELSE 400

\* An exception no handler is registered for: the framework answers 500.
UnhandledStatus == 500

\* The status a session endpoint answers with when its provider call did o:
\* delete_file turns every exception into a 500, send_message a ValueError
\* into a 400, and the other endpoints catch nothing.
EndpointStatus(ep, o) ==
    CASE o.kind = "ok" -> 200
      [] ep = "delete_file" -> 500
      [] ep = "send_message" /\ o.kind = "ValueError" -> 400
      [] o.kind = "ClientError" -> gemini_client_error_handler(o.msg)
      [] OTHER -> UnhandledStatus

----------------------------------------------------------------------------
(* A session endpoint, step by step.  The handlers are plain functions, so *)
(* the framework runs each in a worker thread: the steps of two requests   *)
(* interleave.  Every session endpoint starts with the same call           *)
(*   mgr = _get_or_create_manager(x_gemini_api_key)                        *)
(* which reads nothing of the request but the header, so the endpoint of   *)
(* the request is drawn where it is first read, at the provider call.      *)

Receive(t) ==
    /\ pc[t] = "idle"
    /\ nreq < MaxRequests
    /\ \E k \in HeaderValues : req' = [req EXCEPT ![t] = k]
    /\ pc' = [pc EXCEPT ![t] = "lookup"]
    /\ nreq' = nreq + 1
    /\ UNCHANGED <<envVars, facadeVars, user_managers, nextCtx, session_id, mgr,
                   answer, built, received, refused, recovered>>

\* "if not user_api_key": None and the empty string.
NoUserKey(k) == k = None \/ k = ""

\* The worker's handler has returned or raised: its locals are gone.
Leave(t) ==
    /\ pc' = [pc EXCEPT ![t] = "idle"]
    /\ req' = [req EXCEPT ![t] = None]
    /\ session_id' = [session_id EXCEPT ![t] = None]
    /\ mgr' = [mgr EXCEPT ![t] = None]

\* _get_or_create_manager up to the membership test.
Lookup(t) ==
    /\ pc[t] = "lookup"
    /\ IF NoUserKey(req[t])
       THEN IF ~manager
            THEN /\ answer' = Answer("default", None, NoOutcome, 500)
                 /\ Leave(t)
            ELSE /\ mgr' = [mgr EXCEPT ![t] = DefaultCtx]
                 /\ pc' = [pc EXCEPT ![t] = "call"]
                 /\ UNCHANGED <<answer, session_id, req>>
       ELSE /\ session_id' = [session_id EXCEPT ![t] = sha256_hexdigest(req[t])]
            /\ pc' = [pc EXCEPT ![t] =
                        IF session_id'[t] \in DOMAIN user_managers
                        THEN "fetch" ELSE "construct"]
            /\ UNCHANGED <<mgr, answer, req>>
    /\ UNCHANGED <<envVars, facadeVars, user_managers, nextCtx, built, received,
                   refused, recovered, nreq>>

\* The status of the HTTPException raised when FileSearchManager(api_key=...)
\* raises ValueError.
ConstructFailedStatus == 400

CacheAfterFailure_poisoned(cache, sid) == (sid :> 0) @@ cache

\* The cache after a construction for session id sid failed.
CacheAfterFailure(cache, sid) == cache

\* The cache after the context ctx was constructed for session id sid.
CacheAfterSuccess(cache, sid, ctx) == (sid :> ctx) @@ cache

\* user_managers[session_id] = FileSearchManager(api_key=user_api_key)
Construct(t) ==
    /\ pc[t] = "construct"
    /\ \/ /\ user_managers' = CacheAfterSuccess(user_managers, session_id[t], nextCtx)
          /\ nextCtx' = nextCtx + 1
          /\ built' = [built EXCEPT ![session_id[t]] = @ + 1]
          /\ recovered' = recovered \cup ({req[t]} \cap refused)
          /\ pc' = [pc EXCEPT ![t] = "fetch"]
          /\ UNCHANGED <<answer, refused, req, session_id, mgr>>
       \/ /\ user_managers' = CacheAfterFailure(user_managers, session_id[t])
          /\ answer' = Answer("construct", None, NoOutcome, ConstructFailedStatus)
          /\ refused' = refused \cup {req[t]}
          /\ Leave(t)
          /\ UNCHANGED <<nextCtx, built, recovered>>
    /\ UNCHANGED <<envVars, facadeVars, received, nreq>>

\* return user_managers[session_id]
Fetch(t) ==
    /\ pc[t] = "fetch"
    /\ mgr' = [mgr EXCEPT ![t] = user_managers[session_id[t]]]
    /\ received' = received \cup {<<req[t], user_managers[session_id[t]]>>}
    /\ pc' = [pc EXCEPT ![t] = "call"]
    /\ UNCHANGED <<envVars, facadeVars, user_managers, nextCtx, req, session_id,
                   answer, built, refused, recovered, nreq>>

\* The call of the manager's method and the endpoint's answer.
Call(t) ==
    /\ pc[t] = "call"
    /\ \E ep \in SessionEndpoints, o \in ProviderOutcomes :
          /\ (o.kind = "ValueError" => ep = "send_message")
          /\ answer' = Answer("endpoint", ep, o, EndpointStatus(ep, o))
    /\ Leave(t)
    /\ UNCHANGED <<envVars, facadeVars, user_managers, nextCtx, built, received,
                   refused, recovered, nreq>>

NextRouter ==
    \E t \in Workers :
        \/ Receive(t)
        \/ Lookup(t)
        \/ Construct(t)
        \/ Fetch(t)
        \/ Call(t)

----------------------------------------------------------------------------
(* APIKeyManager (api_keys module): the credential store and the key       *)
(* authenticator.                                                          *)

\* The digest of a presented secret: one value per secret, never the secret.
hash_key(raw) == <<"sha256:">> \o raw

\* The display prefix of a secret: its leading parts.
PrefixLen == 2
key_prefix_of(raw) == SubSeq(raw, 1, PrefixLen)

KeyIndex(keys, P(_)) ==
    LET hits == { i \in 1..Len(keys) : P(keys[i]) }
    IN IF hits = {} THEN 0 ELSE CHOOSE i \in hits : \A j \in hits : i <= j

\* create_key(name, store_name, prompt_index) -> (record, raw secret)
NewKey(n, name, store, pidx, t) ==
    [ id |-> KeyId(n), key_hash |-> hash_key(RawKey(n)),
      key_prefix |-> key_prefix_of(RawKey(n)), name |-> name,
      store_name |-> store, prompt_index |-> pidx,
      created_at |-> t, last_used_at |-> Nothing ]

\* verify_key(raw): the position of the record with the digest of raw, 0
\* when there is none.
verify_key(keys, raw) == KeyIndex(keys, LAMBDA k : k.key_hash = hash_key(raw))

\* verify_key on success: last_used_at is set.
Touch(keys, i, t) == [keys EXCEPT ![i].last_used_at = Some(t)]

\* list_keys(store_name?)
list_keys(keys, store) ==
    IF store = None THEN keys
    ELSE SelectSeq(keys, LAMBDA k : k.store_name = store)

\* get_key(key_id): the position of the record, 0 when there is none.
get_key(keys, id) == KeyIndex(keys, LAMBDA k : k.id = id)

\* update_key(key_id, name?, prompt_index?): the fields given are set.
update_key(keys, i, name, pidx) ==
    [keys EXCEPT ![i].name = IF name = None THEN @ ELSE name,
                 ![i].prompt_index = IF pidx = Nothing THEN @ ELSE pidx]

\* delete_key(key_id)
delete_key(keys, i) == SubSeq(keys, 1, i - 1) \o SubSeq(keys, i + 1, Len(keys))

----------------------------------------------------------------------------
(* PromptManager (prompts module): the prompt registry.                    *)

MAX_PROMPTS_PER_STORE == 2

\* list_prompts(store_name): the prompts of the store in creation order.
list_prompts(store) == SelectSeq(prompts, LAMBDA p : p.store_name = store)

PromptIndex(store, id) ==
    LET hits == { i \in 1..Len(prompts) :
                    prompts[i].id = id /\ prompts[i].store_name = store }
    IN IF hits = {} THEN 0 ELSE CHOOSE i \in hits : TRUE

\* get_active_prompt(store_name): the record the store's pointer names, if any.
get_active_prompt(store) ==
    IF active[store] = None \/ PromptIndex(store, active[store]) = 0
    THEN Nothing
    ELSE Some(prompts[PromptIndex(store, active[store])])

----------------------------------------------------------------------------
(* The prompt management endpoints.  They are plain functions calling one  *)
(* PromptManager operation each.                                           *)

PromptUnchanged == UNCHANGED <<prompts, active, nextPrompt, removed>>

\* A request that went through the route table: its method, its path (the
\* segments after /api/stores/), the endpoint it was dispatched to and the
\* prompt record(s) of the response.
Routed(method, path, endpoint, body) ==
    [method |-> method, path |-> path, endpoint |-> endpoint, body |-> body]

NoRoute == Routed(None, <<>>, None, Nothing)

PromptResponseOnly ==
    /\ keyresp' = [endpoint |-> None, status |-> 0, body |-> <<>>]
    /\ chat' = [auth |-> <<>>, model |-> None, messages |-> <<>>, status |-> 0,
                reported |-> None, content |-> <<>>, usage |-> Nothing]
    /\ provider' = Nothing

\* POST /api/stores/{store_name}/prompts
create_store_prompt(store, name, content) ==
    /\ IF ~prompt_manager
       THEN promptresp' = 500 /\ PromptUnchanged
       ELSE IF Len(list_prompts(store)) >= MAX_PROMPTS_PER_STORE
       THEN promptresp' = 400 /\ PromptUnchanged
       ELSE /\ nextPrompt <= MaxPromptIds
            /\ prompts' = Append(prompts,
                   [id |-> PromptId(nextPrompt), store_name |-> store,
                    name |-> name, content |-> content])
            /\ nextPrompt' = nextPrompt + 1
            /\ promptresp' = 200
            /\ UNCHANGED <<active, removed>>
    /\ PromptResponseOnly
    /\ UNCHANGED <<envVars, routerVars, keyVars>>

\* PUT /api/stores/{store_name}/prompts/{prompt_id}
update_store_prompt(store, id, name, content) ==
    /\ IF ~prompt_manager
       THEN promptresp' = 500 /\ PromptUnchanged
       ELSE IF PromptIndex(store, id) = 0
       THEN promptresp' = 404 /\ PromptUnchanged
       ELSE /\ prompts' = [prompts EXCEPT
                   ![PromptIndex(store, id)].name =
                       IF name = None THEN @ ELSE name,
                   ![PromptIndex(store, id)].content =
                       IF content = None THEN @ ELSE content]
            /\ promptresp' = 200
            /\ UNCHANGED <<active, nextPrompt, removed>>
    /\ PromptResponseOnly
    /\ UNCHANGED <<envVars, routerVars, keyVars>>

\* DELETE /api/stores/{store_name}/prompts/{prompt_id}; deleting the active
\* prompt clears the store's pointer.
delete_store_prompt(store, id) ==
    /\ IF ~prompt_manager
       THEN promptresp' = 500 /\ PromptUnchanged
       ELSE IF PromptIndex(store, id) = 0
       THEN promptresp' = 404 /\ PromptUnchanged
       ELSE /\ prompts' = SubSeq(prompts, 1, PromptIndex(store, id) - 1)
                          \o SubSeq(prompts, PromptIndex(store, id) + 1, Len(prompts))
            /\ active' = [active EXCEPT ![store] = IF @ = id THEN None ELSE @]
            /\ removed' = removed \cup {<<store, id>>}
            /\ promptresp' = 200
            /\ UNCHANGED nextPrompt
    /\ PromptResponseOnly
    /\ UNCHANGED <<envVars, routerVars, keyVars>>

\* POST /api/stores/{store_name}/prompts/active
set_active_store_prompt(store, id) ==
    /\ IF ~prompt_manager
       THEN promptresp' = 500 /\ PromptUnchanged
       ELSE IF PromptIndex(store, id) = 0
       THEN promptresp' = 404 /\ PromptUnchanged
       ELSE /\ active' = [active EXCEPT ![store] = id]
            /\ promptresp' = 200
            /\ UNCHANGED <<prompts, nextPrompt, removed>>
    /\ PromptResponseOnly
    /\ UNCHANGED <<envVars, routerVars, keyVars>>

\* What a reading endpoint returns: a status and the prompt record(s).
PromptResponse(status, body) == [status |-> status, body |-> body]

\* GET /api/stores/{store_name}/prompts
list_store_prompts(store) ==
    IF ~prompt_manager
    THEN PromptResponse(500, Nothing)
    ELSE PromptResponse(200,
             Some([prompts |-> list_prompts(store),
                   active_prompt_id |->
                       IF get_active_prompt(store) = Nothing
                       THEN None ELSE get_active_prompt(store)[1].id,
                   max_prompts |-> MAX_PROMPTS_PER_STORE]))

\* GET /api/stores/{store_name}/prompts/{prompt_id}
get_store_prompt(store, id) ==
    IF ~prompt_manager
    THEN PromptResponse(500, Nothing)
    ELSE IF PromptIndex(store, id) = 0
    THEN PromptResponse(404, Nothing)
    ELSE PromptResponse(200, Some(prompts[PromptIndex(store, id)]))

\* GET /api/stores/{store_name}/prompts/active: the active prompt's record,
\* or a success with "prompt": None.
get_active_store_prompt(store) ==
    IF ~prompt_manager
    THEN PromptResponse(500, Nothing)
    ELSE PromptResponse(200, get_active_prompt(store))

----------------------------------------------------------------------------
(* The route table.  Every @app decorator appends a route; a request is    *)
(* answered by the first route, in that order, whose path pattern and      *)
(* method both match.  When only path patterns match, the answer is 405,   *)
(* and 404 when nothing matches.                                           *)

\* The routes below /api/stores/{store_name:path}, in the order of their
\* decorators.  tail is what follows the store name; "{prompt_id}" is a path
\* parameter, the other segments are literal.
Route(method, tail, endpoint) ==
    [method |-> method, tail |-> tail, endpoint |-> endpoint]

ROUTES ==
    << Route("GET",    <<"files">>,                 "list_files"),
       Route("POST",   <<"upload">>,                "upload_file"),
       Route("GET",    <<"prompts">>,               "list_store_prompts"),
       Route("POST",   <<"prompts">>,               "create_store_prompt"),
       Route("GET",    <<"prompts", "{prompt_id}">>, "get_store_prompt"),
       Route("PUT",    <<"prompts", "{prompt_id}">>, "update_store_prompt"),
       Route("DELETE", <<"prompts", "{prompt_id}">>, "delete_store_prompt"),
       Route("POST",   <<"prompts", "active">>,     "set_active_store_prompt"),
       Route("GET",    <<"prompts", "active">>,     "get_active_store_prompt"),
       Route("DELETE", <<>>,                        "delete_store") >>

PromptEndpoints ==
    { "list_store_prompts", "create_store_prompt", "get_store_prompt",
      "update_store_prompt", "delete_store_prompt", "set_active_store_prompt",
      "get_active_store_prompt" }

\* A path parameter matches any one segment, a literal matches itself.
SegmentMatches(pattern, segment) ==
    pattern = "{prompt_id}" \/ pattern = segment

\* {store_name:path} takes one or more leading segments, the tail the rest.
PathMatches(route, path) ==
    /\ Len(path) > Len(route.tail)
    /\ \A i \in 1..Len(route.tail) :
           SegmentMatches(route.tail[i],
                          path[Len(path) - Len(route.tail) + i])

FullMatches(method, path) ==
    { i \in 1..Len(ROUTES) :
        PathMatches(ROUTES[i], path) /\ ROUTES[i].method = method }

PartialMatches(path) ==
    { i \in 1..Len(ROUTES) : PathMatches(ROUTES[i], path) }

First(S) == CHOOSE i \in S : \A j \in S : i <= j

RECURSIVE JoinPath(_)
JoinPath(segments) ==
    IF Len(segments) = 1 THEN segments[1]
    ELSE segments[1] \o "/" \o JoinPath(Tail(segments))

\* The endpoint a request is dispatched to, with its path parameters.
Dispatch(method, path) ==
    IF FullMatches(method, path) # {}
    THEN LET route == ROUTES[First(FullMatches(method, path))] IN
         [endpoint |-> route.endpoint,
          store_name |-> JoinPath(SubSeq(path, 1, Len(path) - Len(route.tail))),
          prompt_id |-> IF Len(route.tail) = 2 /\ route.tail[2] = "{prompt_id}"
                        THEN path[Len(path)] ELSE None]
    ELSE [endpoint |-> IF PartialMatches(path) # {} THEN "405" ELSE "404",
          store_name |-> None, prompt_id |-> None]

\* A reading endpoint answers: nothing of the registry changes.
Respond(method, path, endpoint, r) ==
    /\ promptresp' = r.status
    /\ routed' = Routed(method, path, endpoint, r.body)
    /\ PromptUnchanged
    /\ PromptResponseOnly
    /\ UNCHANGED <<envVars, routerVars, keyVars>>

\* One request to a prompt path: it is dispatched, and the endpoint runs.
\* The body of a POST or PUT request is one the endpoint's model accepts.
RouteRequest(method, path) ==
    LET d == Dispatch(method, path) IN
    /\ d.endpoint \in PromptEndpoints \cup {"405", "404"}
    /\ CASE d.endpoint = "list_store_prompts" ->
               Respond(method, path, d.endpoint, list_store_prompts(d.store_name))
         [] d.endpoint = "get_store_prompt" ->
               Respond(method, path, d.endpoint,
                       get_store_prompt(d.store_name, d.prompt_id))
         [] d.endpoint = "get_active_store_prompt" ->
               Respond(method, path, d.endpoint,
                       get_active_store_prompt(d.store_name))
         [] d.endpoint = "create_store_prompt" ->
               /\ \E name \in {"p1"}, content \in Contents :
                      create_store_prompt(d.store_name, name, content)
               /\ routed' = Routed(method, path, d.endpoint, Nothing)
         [] d.endpoint = "update_store_prompt" ->
               /\ \E content \in Contents :
                      update_store_prompt(d.store_name, d.prompt_id, None, content)
               /\ routed' = Routed(method, path, d.endpoint, Nothing)
         [] d.endpoint = "delete_store_prompt" ->
               /\ delete_store_prompt(d.store_name, d.prompt_id)
               /\ routed' = Routed(method, path, d.endpoint, Nothing)
         [] d.endpoint = "set_active_store_prompt" ->
               /\ \E n \in 1..MaxPromptIds :
                      set_active_store_prompt(d.store_name, PromptId(n))
               /\ routed' = Routed(method, path, d.endpoint, Nothing)
         [] OTHER ->
               Respond(method, path, d.endpoint,
                       PromptResponse(IF d.endpoint = "405" THEN 405 ELSE 404,
                                      Nothing))

----------------------------------------------------------------------------
(* The API key management endpoints.  A response is its endpoint, its      *)
(* status and its body: the sequence of the JSON objects it carries, each  *)
(* a record.                                                               *)

KeyResponse(ep, st, body) == [endpoint |-> ep, status |-> st, body |-> body]

NoKeyResponse == KeyResponse(None, 0, <<>>)

KeyListItem_with_hash(k) ==
    [ id |-> k.id, key_hash |-> k.key_hash, key_prefix |-> k.key_prefix,
      name |-> k.name, store_name |-> k.store_name,
      prompt_index |-> k.prompt_index,
      created_at |-> k.created_at, last_used_at |-> k.last_used_at ]

\* list_api_keys: one object per key.
KeyListItem(k) ==
    [ id |-> k.id, key_prefix |-> k.key_prefix, name |-> k.name,
      store_name |-> k.store_name, prompt_index |-> k.prompt_index,
      created_at |-> k.created_at, last_used_at |-> k.last_used_at ]

\* create_api_key: the only response with the raw secret.
KeyCreated(k, raw_key) ==
    [ id |-> k.id, key |-> raw_key, key_prefix |-> k.key_prefix,
      name |-> k.name, store_name |-> k.store_name,
      prompt_index |-> k.prompt_index, message |-> "keep this key" ]

\* get_api_key
KeyInfo(k) ==
    [ id |-> k.id, key_prefix |-> k.key_prefix, name |-> k.name,
      store_name |-> k.store_name, prompt_index |-> k.prompt_index,
      created_at |-> k.created_at, last_used_at |-> k.last_used_at ]

\* update_api_key
KeyUpdated(k) ==
    [ id |-> k.id, key_prefix |-> k.key_prefix, name |-> k.name,
      store_name |-> k.store_name, prompt_index |-> k.prompt_index ]

\* The fields whose values are plain strings or numbers of the request or
\* of the record; every other field is compared with the secrets.
PlainFields == {"id", "name", "store_name", "message", "created_at"}

\* The body carries the value v (a secret or a digest) in one of its fields.
Carries(body, v) ==
    \E i \in 1..Len(body) :
        \E f \in (DOMAIN body[i]) \ PlainFields : body[i][f] = v

\* The history of what the responses carried: per key, the number of
\* responses with its raw secret and with its digest (2 stands for "more
\* than one").
Count(old, body) ==
    [ raw |-> [n \in 1..MaxKeys |->
                 IF Carries(body, RawKey(n))
                 THEN (IF old.raw[n] >= 1 THEN 2 ELSE 1) ELSE old.raw[n]],
      hash |-> [n \in 1..MaxKeys |->
                 IF Carries(body, hash_key(RawKey(n)))
                 THEN (IF old.hash[n] >= 1 THEN 2 ELSE 1) ELSE old.hash[n]] ]

Reply(r) ==
    /\ keyresp' = r
    /\ shown' = Count(shown, r.body)
    /\ promptresp' = 0
    /\ routed' = NoRoute
    /\ chat' = [auth |-> <<>>, model |-> None, messages |-> <<>>, status |-> 0,
                reported |-> None, content |-> <<>>, usage |-> Nothing]
    /\ provider' = Nothing

\* GET /api/keys
list_api_keys(store) ==
    /\ IF ~api_key_manager
       THEN Reply(KeyResponse("list_api_keys", 500, <<>>))
       ELSE Reply(KeyResponse("list_api_keys", 200,
                [i \in 1..Len(list_keys(api_keys, store)) |->
                     KeyListItem(list_keys(api_keys, store)[i])]))
    /\ UNCHANGED <<envVars, routerVars, promptVars, api_keys, nextKey, now>>

\* POST /api/keys
create_api_key(name, store, pidx) ==
    /\ IF ~api_key_manager
       THEN /\ Reply(KeyResponse("create_api_key", 500, <<>>))
            /\ UNCHANGED <<api_keys, nextKey>>
       ELSE /\ nextKey <= MaxKeys
            /\ api_keys' = Append(api_keys, NewKey(nextKey, name, store, pidx, now))
            /\ nextKey' = nextKey + 1
            /\ Reply(KeyResponse("create_api_key", 200,
                   <<KeyCreated(NewKey(nextKey, name, store, pidx, now),
                                RawKey(nextKey))>>))
    /\ UNCHANGED <<envVars, routerVars, promptVars, now>>

\* GET /api/keys/{key_id}
get_api_key(id) ==
    /\ IF ~api_key_manager
       THEN Reply(KeyResponse("get_api_key", 500, <<>>))
       ELSE IF get_key(api_keys, id) = 0
       THEN Reply(KeyResponse("get_api_key", 404, <<>>))
       ELSE Reply(KeyResponse("get_api_key", 200,
                <<KeyInfo(api_keys[get_key(api_keys, id)])>>))
    /\ UNCHANGED <<envVars, routerVars, promptVars, api_keys, nextKey, now>>

\* PUT /api/keys/{key_id}
update_api_key(id, name, pidx) ==
    /\ IF ~api_key_manager
       THEN /\ Reply(KeyResponse("update_api_key", 500, <<>>))
            /\ UNCHANGED api_keys
       ELSE IF get_key(api_keys, id) = 0
       THEN /\ Reply(KeyResponse("update_api_key", 404, <<>>))
            /\ UNCHANGED api_keys
       ELSE /\ api_keys' = update_key(api_keys, get_key(api_keys, id), name, pidx)
            /\ Reply(KeyResponse("update_api_key", 200,
                   <<KeyUpdated(api_keys'[get_key(api_keys, id)])>>))
    /\ UNCHANGED <<envVars, routerVars, promptVars, nextKey, now>>

\* DELETE /api/keys/{key_id}
delete_api_key(id) ==
    /\ IF ~api_key_manager
       THEN /\ Reply(KeyResponse("delete_api_key", 500, <<>>))
            /\ UNCHANGED api_keys
       ELSE IF get_key(api_keys, id) = 0
       THEN /\ Reply(KeyResponse("delete_api_key", 404, <<>>))
            /\ UNCHANGED api_keys
       ELSE /\ api_keys' = delete_key(api_keys, get_key(api_keys, id))
            /\ Reply(KeyResponse("delete_api_key", 200,
                   <<[message |-> "deleted"]>>))
    /\ UNCHANGED <<envVars, routerVars, promptVars, nextKey, now>>

\* Time passes.
Tick ==
    /\ now < MaxClock
    /\ now' = now + 1
    /\ UNCHANGED <<envVars, routerVars, promptVars, respVars, api_keys, nextKey,
                   shown>>

----------------------------------------------------------------------------
(* The OpenAI compatible endpoint.                                         *)

extract_bearer_token_any_scheme(auth) ==
    IF Len(auth) = 2 THEN Some(auth[2]) ELSE Nothing

\* _extract_bearer_token: what follows "Bearer " in the header, else None.
extract_bearer_token(auth) ==
    IF Len(auth) = 2 /\ auth[1] = "Bearer" THEN Some(auth[2]) ELSE Nothing

\* "if not token": None and the empty string.
NoToken(tok) == tok = Nothing \/ tok[1] = <<>>

OfRole(messages, role) == SelectSeq(messages, LAMBDA m : m.role = role)

Last(seq) == seq[Len(seq)]

IndexInRange_off_by_one(i, lst) == 0 <= i /\ i < Len(lst) - 1

\* 0 <= prompt_index < len(prompts)
IndexInRange(i, lst) == 0 <= i /\ i < Len(lst)

get_system_prompt_active_first(info, store, messages) ==
    IF Len(OfRole(messages, "system")) > 0
    THEN Last(OfRole(messages, "system")).content
    ELSE IF ~prompt_manager
    THEN None
    ELSE IF get_active_prompt(store) # Nothing
    THEN get_active_prompt(store)[1].content
    ELSE IF /\ info # Nothing
            /\ info[1].prompt_index # Nothing
            /\ IndexInRange(info[1].prompt_index[1], list_prompts(store))
    THEN list_prompts(store)[info[1].prompt_index[1] + 1].content
    ELSE None

\* _get_system_prompt(api_key_info, store_name, messages)
get_system_prompt(info, store, messages) ==
    IF Len(OfRole(messages, "system")) > 0
    THEN Last(OfRole(messages, "system")).content
    ELSE IF ~prompt_manager
    THEN None
    ELSE IF /\ info # Nothing
            /\ info[1].prompt_index # Nothing
            /\ IndexInRange(info[1].prompt_index[1], list_prompts(store))
    THEN list_prompts(store)[info[1].prompt_index[1] + 1].content
    ELSE IF get_active_prompt(store) # Nothing
    THEN get_active_prompt(store)[1].content
    ELSE None

InSupported(m) == \E i \in 1..Len(SUPPORTED_MODELS) : SUPPORTED_MODELS[i] = m

\* The warning text: it names the model asked for and the model used.
WarningText(requested) ==
    <<"unsupported model", requested, "using default", DEFAULT_MODEL>>

ChooseModel_silent(requested) ==
    IF InSupported(requested)
    THEN [model_name |-> requested, warning |-> None]
    ELSE [model_name |-> DEFAULT_MODEL, warning |-> None]

\* "if request.model in SUPPORTED_MODELS": the model used, and the warning.
ChooseModel(requested) ==
    IF InSupported(requested)
    THEN [model_name |-> requested, warning |-> None]
    ELSE [model_name |-> DEFAULT_MODEL, warning |-> WarningText(requested)]

WarningSign == "(!)"

\* answer_text: the warning, when there is one, goes before the text.
AnswerText(warning, text) ==
    IF warning # None
    THEN <<WarningSign>> \o warning \o <<"\n\n">> \o text
    ELSE text

ZeroUsage == [prompt_tokens |-> 0, completion_tokens |-> 0, total_tokens |-> 0]

\* A chat completion request with what was answered: the status, and for a
\* 200 the model reported, the answer text and the usage.
Chat(auth, model, messages, st, reported, content, usage) ==
    [ auth |-> auth, model |-> model, messages |-> messages, status |-> st,
      reported |-> reported, content |-> content, usage |-> usage ]

ChatError(auth, model, messages, st) ==
    Chat(auth, model, messages, st, None, <<>>, Nothing)

NoChat == ChatError(<<>>, None, <<>>, 0)

\* manager.query(store_name, last_message, system_instruction=..., model=...)
Query(store, question, system_instruction, model) ==
    [ store |-> store, question |-> question,
      system_instruction |-> system_instruction, model |-> model ]

\* POST /v1/chat/completions.  The handler is a coroutine that never awaits.
openai_chat_completions(auth, model, messages) ==
    /\ LET token == extract_bearer_token(auth)
           ki == IF NoToken(token) THEN 0 ELSE verify_key(api_keys, token[1])
       IN
       IF ~manager \/ ~api_key_manager
       THEN /\ chat' = ChatError(auth, model, messages, 500)
            /\ provider' = Nothing
            /\ UNCHANGED api_keys
       ELSE IF NoToken(token) \/ ki = 0
       THEN /\ chat' = ChatError(auth, model, messages, 401)
            /\ provider' = Nothing
            /\ UNCHANGED api_keys
       ELSE
         /\ api_keys' = Touch(api_keys, ki, now)
         /\ IF Len(OfRole(messages, "user")) = 0
            THEN /\ chat' = ChatError(auth, model, messages, 400)
                 /\ provider' = Nothing
            ELSE
              LET store_name == api_keys'[ki].store_name
                  last_message == Last(OfRole(messages, "user")).content
                  system_prompt == get_system_prompt(Some(api_keys'[ki]), store_name, messages)
                  choice == ChooseModel(model)
              IN
              /\ provider' = Some(Query(store_name, last_message, system_prompt,
                                        choice.model_name))
              /\ \E o \in QueryOutcomes :
                    chat' = IF o.kind = "ok"
                            THEN Chat(auth, model, messages, 200,
                                      choice.model_name,
                                      AnswerText(choice.warning, o.msg),
                                      Some(ZeroUsage))
                            ELSE ChatError(auth, model, messages, 500)
    /\ promptresp' = 0
    /\ routed' = NoRoute
    /\ keyresp' = NoKeyResponse
    /\ UNCHANGED <<envVars, routerVars, promptVars, nextKey, now, shown>>

----------------------------------------------------------------------------
InitFacade ==
    /\ api_keys = <<>>
    /\ nextKey = 1
    /\ prompts = <<>>
    /\ active = [s \in Stores |-> None]
    /\ nextPrompt = 1
    /\ removed = {}
    /\ now = 0
    /\ chat = NoChat
    /\ provider = Nothing
    /\ promptresp = 0
    /\ routed = NoRoute
    /\ keyresp = NoKeyResponse
    /\ shown = [raw |-> [n \in 1..MaxKeys |-> 0], hash |-> [n \in 1..MaxKeys |-> 0]]

Init ==
    /\ startup
    /\ DEFAULT_MODEL \in DefaultModels
    /\ InitRouter
    /\ InitFacade

KeyNames == {"n1"}
PromptNames == {"p1"}

\* The prompt endpoints called with well-formed arguments, not through a
\* path of the route table.
PromptRequest ==
    \E store \in Stores :
        \/ \E name \in PromptNames, content \in Contents :
               create_store_prompt(store, name, content) /\ routed' = NoRoute
        \/ \E n \in 1..MaxPromptIds, content \in Contents :
               update_store_prompt(store, PromptId(n), None, content)
                   /\ routed' = NoRoute
        \/ \E n \in 1..MaxPromptIds :
               delete_store_prompt(store, PromptId(n)) /\ routed' = NoRoute
        \/ \E n \in 1..MaxPromptIds :
               set_active_store_prompt(store, PromptId(n)) /\ routed' = NoRoute

KeyRequest ==
    \/ \E store \in {None} \cup Stores : list_api_keys(store)
    \/ \E name \in KeyNames, store \in Stores, pidx \in {Nothing} \cup PromptIndexes :
           create_api_key(name, store, pidx)
    \/ \E n \in 1..MaxKeys : get_api_key(KeyId(n))
    \/ \E n \in 1..MaxKeys, name \in {None} \cup KeyNames,
          pidx \in {Nothing} \cup PromptIndexes :
           update_api_key(KeyId(n), name, pidx)
    \/ \E n \in 1..MaxKeys : delete_api_key(KeyId(n))

\* The credential lifecycle on its own: every key management request, and
\* the clock.
NextKeys == KeyRequest \/ Tick

InitKeys == Init /\ DEFAULT_MODEL = FlashLite

SpecKeys == InitKeys /\ [][NextKeys]_vars

\* Prompt resolution: the prompt registry changes, one credential is issued
\* with any store and selector, and chat requests with every shape of
\* message list are answered.
ResolveMessageLists ==
    { <<Msg("user", "q1")>>,
      <<Msg("system", "I1"), Msg("user", "q1")>>,
      <<Msg("system", "I1"), Msg("user", "q1"), Msg("system", "I2")>> }

ResolveRequest ==
    \E n \in 1..MaxKeys, messages \in ResolveMessageLists :
        openai_chat_completions(<<"Bearer", RawKey(n)>>, FlashLite, messages)

SelectorRequest ==
    \E name \in KeyNames, store \in Stores, pidx \in {Nothing} \cup PromptIndexes :
        create_api_key(name, store, pidx)

NextResolve ==
    \/ PromptRequest
    \/ api_keys = <<>> /\ SelectorRequest
    \/ ResolveRequest

InitResolve == Init /\ DEFAULT_MODEL = FlashLite

SpecResolve == InitResolve /\ [][NextResolve]_vars

\* The compatibility shim: chat requests with every Authorization header
\* and every model, while keys are issued and deleted.
ShimMessageLists ==
    { <<Msg("user", "q1"), Msg("assistant", "a1"), Msg("user", "q2")>>,
      <<Msg("system", "I1")>> }

ShimRequest ==
    \E auth \in AuthValues, model \in RequestedModels, messages \in ShimMessageLists :
        openai_chat_completions(auth, model, messages)

IssueRequest ==
    \/ \E name \in KeyNames, store \in Stores :
           create_api_key(name, store, Nothing)
    \/ \E n \in 1..MaxKeys : delete_api_key(KeyId(n))

NextShim == ShimRequest \/ IssueRequest

SpecShim == Init /\ [][NextShim]_vars

\* The prompt paths as requests: every method on the prompt list, on a
\* prompt id and on "active", for every store.
RouteMethods == {"GET", "POST", "PUT", "DELETE"}

RoutePaths ==
    { <<store, "prompts">> \o tail :
        store \in Stores,
        tail \in {<<>>, <<"active">>}
                    \cup { <<PromptId(n)>> : n \in 1..MaxPromptIds } }

NextRoutes ==
    \E method \in RouteMethods, path \in RoutePaths : RouteRequest(method, path)

InitRoutes == Init /\ DEFAULT_MODEL = FlashLite

SpecRoutes == InitRoutes /\ [][NextRoutes]_vars

\* The whole facade: every endpoint above.  It is checked in the slices
\* SpecRouter, SpecKeys, SpecResolve and SpecShim.
Next ==
    \/ NextRouter \/ PromptRequest \/ KeyRequest \/ ShimRequest
    \/ ResolveRequest \/ Tick \/ NextRoutes

Spec == Init /\ [][Next]_vars

\* The session endpoints read manager alone of what startup() sets, and
\* never DEFAULT_MODEL: one start-up with and one without the managers.
InitSessions ==
    /\ Init
    /\ DEFAULT_MODEL = FlashLite
    /\ prompt_manager = manager
    /\ api_key_manager = manager

SpecRouter == InitSessions /\ [][NextRouter]_vars

----------------------------------------------------------------------------
(* The session router: claims *)

\* C2: any two requests that bore the same non-empty secret received the
\* identical context, and two requests bearing different secrets never
\* received the same context.
C2_SameSecretSameContext ==
    \A p \in received, q \in received : (p[1] = q[1]) <=> (p[2] = q[2])

\* C3: the cache insertion is an atomic insert-if-absent: at most one context
\* is ever constructed for a session id, and a worker that has obtained its
\* context from the router holds the cached one.
C3_SingleConstruction ==
    /\ \A h \in DOMAIN built : built[h] <= 1
    /\ \A t \in Workers :
          (pc[t] = "call" /\ session_id[t] # None)
              => mgr[t] = user_managers[session_id[t]]

\* C5: a failed construction leaves the cache exactly as it was, and the
\* cache only ever holds contexts that were constructed, so a later request
\* with the same or with another secret constructs and caches its own.
C5_FailureLeavesCache ==
    /\ [][ \A t \in Workers :
              (pc[t] = "construct" /\ pc'[t] = "idle")
                  => user_managers' = user_managers ]_vars
    /\ [](\A h \in DOMAIN user_managers :
              built[h] >= 1 /\ user_managers[h] \in 1..(nextCtx - 1))

\* C5 witness: a secret whose construction failed was presented again, and
\* its context was constructed and cached.
C5_Witness ==
    \E s \in recovered :
        /\ s \in refused
        /\ sha256_hexdigest(s) \in DOMAIN user_managers
        /\ \E c \in 1..(nextCtx - 1) : <<s, c>> \in received

\* C7: a provider rate-limit failure raised during the call of an endpoint
\* is answered with HTTP 429.
C7_RateLimitIs429 ==
    (answer.from = "endpoint" /\ IsRateLimit(answer.outcome))
        => answer.status = 429

\* C10: when the router cannot construct a context for the presented
\* secret, the request is answered with HTTP 401.
C10_ConstructFailureIs401 ==
    answer.from = "construct" => answer.status = 401

----------------------------------------------------------------------------
(* The facade: claims.  chat and provider describe a chat request only     *)
(* while it is the request handled last, so the registry and the           *)
(* credentials of the state are those the request was answered from.       *)

\* The chat request handled last issued a provider query.
Queried == provider # Nothing

\* The credential whose digest is that of the bearer token of the request.
KeysOf(auth) ==
    { i \in 1..Len(api_keys) :
        /\ Len(auth) = 2
        /\ auth[1] = "Bearer"
        /\ api_keys[i].key_hash = hash_key(auth[2]) }

KeyOf(auth) == api_keys[CHOOSE i \in KeysOf(auth) : TRUE]

\* The positions of the system messages of the request.
InlineAt(messages) == { i \in 1..Len(messages) : messages[i].role = "system" }

\* The positions in the registry of the prompts of a store.
PositionsOf(store) == { j \in 1..Len(prompts) : prompts[j].store_name = store }

\* The positions of the prompts of the store that i prompts of the store precede.
AtIndex(store, i) ==
    { j \in PositionsOf(store) :
        Cardinality({ h \in PositionsOf(store) : h < j }) = i }

\* The positions of the active prompt of the store.
ActiveAt(store) == { j \in PositionsOf(store) : prompts[j].id = active[store] }

\* C1: the instruction handed to the provider is the inline system
\* instruction if the request carries one; else the content of the prompt at
\* the credential's prompt_index in the store's list if there is such an
\* index and it is in range; else the content of the store's active prompt
\* if one is set; else none.
C1_ResolutionOrder ==
    Queried =>
        LET key == KeyOf(chat.auth)
            store == key.store_name
            got == provider[1].system_instruction
            inline == InlineAt(chat.messages)
            selected == IF key.prompt_index = Nothing THEN {}
                        ELSE AtIndex(store, key.prompt_index[1])
        IN  IF inline # {}
            THEN got = chat.messages[CHOOSE i \in inline : \A j \in inline : j <= i].content
            ELSE IF selected # {}
            THEN \A j \in selected : got = prompts[j].content
            ELSE IF ActiveAt(store) # {}
            THEN \A j \in ActiveAt(store) : got = prompts[j].content
            ELSE got = None

\* C1 witness: no inline instruction, a selector in range and an active
\* prompt with another content: the selector's prompt is used.
C1_Witness ==
    /\ Queried
    /\ chat.status = 200
    /\ InlineAt(chat.messages) = {}
    /\ KeyOf(chat.auth).prompt_index # Nothing
    /\ \E j \in AtIndex(KeyOf(chat.auth).store_name, KeyOf(chat.auth).prompt_index[1]) :
         \E a \in ActiveAt(KeyOf(chat.auth).store_name) :
            /\ prompts[a].content # prompts[j].content
            /\ provider[1].system_instruction = prompts[j].content

\* C4 as claimed: a provider query is issued only for a bearer token
\* verify_key finds, and for the store that credential is bound to; a request
\* whose header is missing, is not of Bearer form or carries a token
\* verify_key does not find is answered 401 without a provider query.
C4_AuthBeforeQuery_Original ==
    chat.status # 0 =>
        /\ Queried => /\ KeysOf(chat.auth) # {}
                      /\ provider[1].store = KeyOf(chat.auth).store_name
        /\ KeysOf(chat.auth) = {} => (chat.status = 401 /\ ~Queried)

\* C4 as amended: the same, but the rejected request is answered 401 only
\* when startup() built manager and api_key_manager; when it did not, every
\* request is answered 500 before its credential is looked at.  No provider
\* query is issued either way.
C4_AuthBeforeQuery ==
    chat.status # 0 =>
        /\ Queried => /\ KeysOf(chat.auth) # {}
                      /\ provider[1].store = KeyOf(chat.auth).store_name
        /\ KeysOf(chat.auth) = {} =>
              /\ ~Queried
              /\ chat.status = IF manager /\ api_key_manager THEN 401 ELSE 500
        /\ (~manager \/ ~api_key_manager) => (chat.status = 500 /\ ~Queried)

\* C4 witness: a key bound to S2 was accepted and the query went to S2.
C4_Witness ==
    /\ Queried
    /\ KeysOf(chat.auth) # {}
    /\ KeyOf(chat.auth).store_name = "S2"
    /\ provider[1].store = "S2"
    /\ chat.status = 200

\* C6: with no inline instruction and a credential with prompt_index i, the
\* instruction is the content of the prompt now at position i of
\* list_prompts(store) when 0 <= i < its length, and the store's active
\* prompt (or none) otherwise.
C6_IndexAgainstCurrentList ==
    (/\ Queried
     /\ InlineAt(chat.messages) = {}
     /\ KeyOf(chat.auth).prompt_index # Nothing)
    =>
        LET store == KeyOf(chat.auth).store_name
            i == KeyOf(chat.auth).prompt_index[1]
            current == list_prompts(store)
            got == provider[1].system_instruction
        IN  IF 0 <= i /\ i < Len(current)
            THEN got = current[i + 1].content
            ELSE IF ActiveAt(store) # {}
            THEN \A j \in ActiveAt(store) : got = prompts[j].content
            ELSE got = None

\* C6 witness: the first prompt of the store was deleted; the credential
\* with prompt_index 0 now resolves to the prompt created after it.
C6_Witness ==
    /\ Queried
    /\ chat.status = 200
    /\ InlineAt(chat.messages) = {}
    /\ KeyOf(chat.auth).prompt_index = Some(0)
    /\ <<KeyOf(chat.auth).store_name, PromptId(1)>> \in removed
    /\ Len(list_prompts(KeyOf(chat.auth).store_name)) >= 1
    /\ list_prompts(KeyOf(chat.auth).store_name)[1].id = PromptId(2)
    /\ provider[1].system_instruction =
           list_prompts(KeyOf(chat.auth).store_name)[1].content

SupportedSet == { SUPPORTED_MODELS[i] : i \in 1..Len(SUPPORTED_MODELS) }

Names(text) == { text[i] : i \in 1..Len(text) }

HasWarning(text) == Len(text) >= 1 /\ text[1] = WarningSign

\* C8: a model of the allow-list is passed to the provider and reported, and
\* the answer carries no warning; any other model is replaced by
\* DEFAULT_MODEL, which is passed and reported, and the answer begins with a
\* warning naming the model asked for and the model used.
C8_SubstitutionNeverSilent ==
    /\ Queried =>
          provider[1].model =
              IF chat.model \in SupportedSet THEN chat.model ELSE DEFAULT_MODEL
    /\ chat.status = 200 =>
          /\ Queried
          /\ chat.reported = provider[1].model
          /\ HasWarning(chat.content) <=> chat.model \notin SupportedSet
          /\ HasWarning(chat.content) =>
                {chat.model, DEFAULT_MODEL} \subseteq Names(chat.content)

\* C8 witness: gpt-4o was asked for, the default was used and the answer
\* begins with the warning.
C8_Witness ==
    /\ chat.status = 200
    /\ chat.model = "gpt-4o"
    /\ provider[1].model = DEFAULT_MODEL
    /\ chat.reported = DEFAULT_MODEL
    /\ HasWarning(chat.content)

ListedFields ==
    {"id", "key_prefix", "name", "store_name", "prompt_index",
     "created_at", "last_used_at"}

\* C9: the raw secret of a key is carried by exactly one response, the one
\* to the create request that issued it; no response carries a digest; the
\* list, get and update responses have no field besides id, key_prefix,
\* name, store_name, prompt_index and the timestamps.
C9_SecretShownOnce ==
    /\ \A n \in 1..MaxKeys :
          /\ shown.raw[n] = IF n < nextKey THEN 1 ELSE 0
          /\ shown.hash[n] = 0
          /\ Carries(keyresp.body, RawKey(n)) =>
                /\ keyresp.endpoint = "create_api_key"
                /\ keyresp.body[1].id = KeyId(n)
    /\ keyresp.endpoint \in {"list_api_keys", "get_api_key", "update_api_key"} =>
          \A i \in 1..Len(keyresp.body) : DOMAIN keyresp.body[i] \subseteq ListedFields

\* C9 witness: a key was issued and is now listed, without its secret.
C9_Witness ==
    /\ keyresp.endpoint = "list_api_keys"
    /\ keyresp.status = 200
    /\ Len(keyresp.body) >= 1
    /\ keyresp.body[1].id = KeyId(1)
    /\ shown.raw[1] = 1

----------------------------------------------------------------------------
(* The route table: claims.                                                *)

\* The request dispatched last was GET /api/stores/{store}/prompts/active.
GetActive ==
    /\ routed.method = "GET"
    /\ Len(routed.path) = 3
    /\ routed.path[2] = "prompts"
    /\ routed.path[3] = "active"

\* C11: GET /api/stores/{store}/prompts/active is answered by the
\* active-prompt operation: a success carrying the store's active prompt
\* record, or no prompt when none is set; it is not answered by the
\* get-prompt-by-id endpoint as a not-found for the id "active".
C11_ActiveRouteAnswered ==
    GetActive =>
        /\ routed.endpoint = "get_active_store_prompt"
        /\ prompt_manager =>
               /\ promptresp = 200
               /\ routed.body = get_active_prompt(routed.path[1])

====
